---- MODULE Spec2Model ----
(***************************************************************************)
(* Model of src/blit.rs: the Blitter of compute.toys.                      *)
(*                                                                         *)
(* The Blitter is a wrapper over wgpu, so what it does is the sequence of  *)
(* wgpu calls it makes.  The state is the log of all wgpu calls made so    *)
(* far (gpu), the Blitter structs that were returned (blitters), the log   *)
(* of the calls made to the Blitter API (calls), and the device side: how  *)
(* many queue submissions the GPU has executed and the texture contents.   *)
(* A wgpu object is named by the index in gpu of the call that made it.    *)
(***************************************************************************)
EXTENDS Integers, Sequences, FiniteSets

VARIABLES gpu, blitters, calls, panicked, executed, pixels

vars == <<gpu, blitters, calls, panicked, executed, pixels>>

(***************************************************************************)
(* Bounds of the model.                                                    *)
(***************************************************************************)
MaxCalls == 3
MaxDim == 2
SrcDim == 2

(***************************************************************************)
(* Option<T>: None is the empty sequence, Some(x) a one-element sequence.  *)
(***************************************************************************)
None == <<>>
Some(x) == <<x>>

ColourSpace == {"Linear", "Rgbe"}

\* The formats the match of Blitter::new names, and one it does not.
TextureFormat == {"Bgra8Unorm", "Bgra8UnormSrgb", "Rgba16Float", "Rgba8Unorm"}

Panic == "panic: Blitter: unrecognised conversion"

GREEN == [r |-> 0, g |-> 1, b |-> 0, a |-> 1]

LAYOUT_DESCRIPTOR ==
    [label |-> None,
     entries |-> <<
        [binding |-> 0, visibility |-> {"FRAGMENT"},
         ty |-> [kind |-> "Texture", multisampled |-> FALSE,
                 sample_type |-> "Float", filterable |-> FALSE,
                 view_dimension |-> "D2"],
         count |-> None],
        [binding |-> 1, visibility |-> {"FRAGMENT"},
         ty |-> [kind |-> "Sampler", binding_type |-> "NonFiltering"],
         count |-> None] >>]

\* Faults of the match: the two Linear arms exchanged, and a catch-all arm
\* that falls back to the default entry point instead of panicking.
FragmentEntryPoint_Swapped(src_space, dest_format) ==
    CASE src_space = "Linear" /\ dest_format = "Bgra8Unorm" -> "fs_main"
      [] src_space = "Linear" /\ dest_format = "Bgra8UnormSrgb" -> "fs_main_linear_to_srgb"
      [] src_space = "Rgbe" /\ dest_format = "Rgba16Float" -> "fs_main_rgbe_to_linear"
      [] OTHER -> Panic

FragmentEntryPoint_Fallback(src_space, dest_format) ==
    CASE src_space = "Linear" /\ dest_format = "Bgra8Unorm" -> "fs_main_linear_to_srgb"
      [] src_space = "Linear" /\ dest_format = "Bgra8UnormSrgb" -> "fs_main"
      [] src_space = "Rgbe" /\ dest_format = "Rgba16Float" -> "fs_main_rgbe_to_linear"
      [] OTHER -> "fs_main"

(***************************************************************************)
(* The fragment entry point chosen by the match in Blitter::new.           *)
(***************************************************************************)
FragmentEntryPoint(src_space, dest_format) ==
    CASE src_space = "Linear" /\ dest_format = "Bgra8Unorm" -> "fs_main_linear_to_srgb"
      [] src_space = "Linear" /\ dest_format = "Bgra8UnormSrgb" -> "fs_main"
      [] src_space = "Rgbe" /\ dest_format = "Rgba16Float" -> "fs_main_rgbe_to_linear"
      [] OTHER -> Panic

\* dest_format.into(): the ColorTargetState a bare format converts to.
ColorTargetState(format) ==
    [format |-> format, blend |-> None, write_mask |-> "ALL"]

(***************************************************************************)
(* The wgpu calls of Blitter::new, in evaluation order, when the log       *)
(* already holds base calls.  The struct fields are evaluated in the order *)
(* written: the bind group (view, sampler, bind group), then the pipeline  *)
(* descriptor (pipeline layout, vertex, fragment with the match), then     *)
(* create_render_pipeline on the finished descriptor.                      *)
(***************************************************************************)
NewPrefix(src, base) ==
    << [call |-> "device.create_shader_module",
        desc |-> [label |-> None, source |-> "blit.wgsl"]],
       [call |-> "device.create_bind_group_layout", desc |-> LAYOUT_DESCRIPTOR],
       [call |-> "texture.create_view", texture |-> src, desc |-> "default"],
       [call |-> "device.create_sampler", desc |-> "default"],
       [call |-> "device.create_bind_group",
        desc |-> [label |-> None,
                  layout |-> base + 2,
                  entries |-> << [binding |-> 0, kind |-> "TextureView", resource |-> base + 3],
                                 [binding |-> 1, kind |-> "Sampler", resource |-> base + 4] >>]],
       [call |-> "device.create_pipeline_layout",
        desc |-> [label |-> None,
                  bind_group_layouts |-> <<base + 2>>,
                  push_constant_ranges |-> <<>>]] >>

\* Fault: the colour target is hard-wired to the surface format.
RenderPipelineDescriptor_Bgra(src_space, dest_format, base) ==
    [label |-> None,
     layout |-> Some(base + 6),
     vertex |-> [module |-> base + 1, entry_point |-> "vs_main", buffers |-> <<>>],
     fragment |-> Some([module |-> base + 1,
                        entry_point |-> FragmentEntryPoint(src_space, dest_format),
                        targets |-> <<ColorTargetState("Bgra8Unorm")>>]),
     primitive |-> "default",
     depth_stencil |-> None,
     multisample |-> "default",
     multiview |-> None]

RenderPipelineDescriptor(src_space, dest_format, base) ==
    [label |-> None,
     layout |-> Some(base + 6),
     vertex |-> [module |-> base + 1, entry_point |-> "vs_main", buffers |-> <<>>],
     fragment |-> Some([module |-> base + 1,
                        entry_point |-> FragmentEntryPoint(src_space, dest_format),
                        targets |-> <<ColorTargetState(dest_format)>>]),
     primitive |-> "default",
     depth_stencil |-> None,
     multisample |-> "default",
     multiview |-> None]

\* Fault: the pair is validated on entry, before anything is created.
NewCalls_CheckFirst(src, src_space, dest_format, base) ==
    IF FragmentEntryPoint(src_space, dest_format) = Panic
    THEN [made |-> <<>>, result |-> None]
    ELSE [made |-> Append(NewPrefix(src, base),
                          [call |-> "device.create_render_pipeline",
                           desc |-> RenderPipelineDescriptor(src_space, dest_format, base)]),
          result |-> Some([render_pipeline |-> base + 7,
                           render_bind_group |-> base + 5,
                           dest_format |-> dest_format])]

\* The outcome of Blitter::new: the wgpu calls it made and what it returned.
NewCalls(src, src_space, dest_format, base) ==
    IF FragmentEntryPoint(src_space, dest_format) = Panic
    THEN [made |-> NewPrefix(src, base), result |-> None]
    ELSE [made |-> Append(NewPrefix(src, base),
                          [call |-> "device.create_render_pipeline",
                           desc |-> RenderPipelineDescriptor(src_space, dest_format, base)]),
          result |-> Some([render_pipeline |-> base + 7,
                           render_bind_group |-> base + 5,
                           dest_format |-> dest_format])]

(***************************************************************************)
(* Objects of the log.                                                     *)
(***************************************************************************)
Made(kind) == {i \in DOMAIN gpu : gpu[i].call = kind}

Textures == Made("device.create_texture")

\* The caller's source texture, which exists before any Blitter does.
SourceTexture ==
    [call |-> "device.create_texture",
     desc |-> [size |-> [width |-> SrcDim, height |-> SrcDim, depth_or_array_layers |-> 1],
               mip_level_count |-> 1, sample_count |-> 1, dimension |-> "D2",
               format |-> "Rgba8Unorm",
               usage |-> {"TEXTURE_BINDING", "COPY_DST"},
               label |-> None]]

\* The caller's own destination texture (the surface it presents), which
\* it made without asking any Blitter for the format.
SurfaceTexture ==
    [call |-> "device.create_texture",
     desc |-> [size |-> [width |-> MaxDim, height |-> MaxDim, depth_or_array_layers |-> 1],
               mip_level_count |-> 1, sample_count |-> 1, dimension |-> "D2",
               format |-> "Bgra8Unorm",
               usage |-> {"RENDER_ATTACHMENT"},
               label |-> None]]

(***************************************************************************)
(* Texture contents.  A pixel records where its value came from: the       *)
(* caller's upload (source), zero initialisation, a render pass clear, or  *)
(* a fragment entry point applied to a texel of the sampled texture.       *)
(***************************************************************************)
SourcePixel(t, c) == [from |-> "source", color |-> None, entry |-> "", texel |-> <<t, c[1], c[2]>>]
ZeroPixel == [from |-> "zero", color |-> None, entry |-> "", texel |-> <<>>]
ClearPixel(color) == [from |-> "clear", color |-> Some(color), entry |-> "", texel |-> <<>>]
DrawPixel(entry, texel) == [from |-> "draw", color |-> None, entry |-> entry, texel |-> texel]

Init ==
    /\ gpu = <<SourceTexture, SurfaceTexture>>
    /\ blitters = <<>>
    /\ calls = <<>>
    /\ panicked = FALSE
    /\ executed = 0
    /\ pixels = <<[c \in (0 .. SrcDim - 1) \X (0 .. SrcDim - 1) |-> SourcePixel(1, c)],
                  [c \in (0 .. MaxDim - 1) \X (0 .. MaxDim - 1) |-> ZeroPixel]>>

(***************************************************************************)
(* Blitter::new(wgpu, src, src_space, dest_format)                         *)
(***************************************************************************)
New ==
    /\ ~panicked
    /\ Len(calls) < MaxCalls
    /\ \E src_space \in ColourSpace, dest_format \in TextureFormat :
         LET base == Len(gpu)
             out == NewCalls(1, src_space, dest_format, base)
         IN /\ gpu' = gpu \o out.made
            /\ calls' = Append(calls,
                   [op |-> "new", src |-> 1, src_space |-> src_space,
                    dest_format |-> dest_format,
                    first |-> base + 1, last |-> base + Len(out.made),
                    result |-> IF out.result = None THEN None
                               ELSE Some(Len(blitters) + 1)])
            /\ blitters' = blitters \o out.result
            /\ panicked' = (out.result = None)
            /\ UNCHANGED <<executed, pixels>>

\* Faults of blit: it draws only the first time a Blitter is used; it draws
\* two vertices, which make no triangle; it draws before the bind group is set.
BlitCalls_Once(self, encoder, dest, base) ==
    << [call |-> "texture.create_view", texture |-> dest, desc |-> "default"],
       [call |-> "encoder.begin_render_pass", encoder |-> encoder,
        desc |-> [label |-> None,
                  color_attachments |-> <<
                      [view |-> base + 1,
                       resolve_target |-> None,
                       ops |-> [load |-> [op |-> "Clear", color |-> GREEN],
                                store |-> TRUE]] >>,
                  depth_stencil_attachment |-> None]],
       [call |-> "render_pass.set_pipeline", pass |-> base + 2,
        pipeline |-> self.render_pipeline],
       [call |-> "render_pass.set_bind_group", pass |-> base + 2, index |-> 0,
        bind_group |-> self.render_bind_group, offsets |-> <<>>],
       [call |-> "render_pass.draw", pass |-> base + 2,
        vertices |-> [start |-> 0,
                      end |-> IF \E i \in Made("render_pass.set_pipeline") :
                                    gpu[i].pipeline = self.render_pipeline
                              THEN 0 ELSE 3],
        instances |-> [start |-> 0, end |-> 1]],
       [call |-> "render_pass.drop", pass |-> base + 2] >>

BlitCalls_TwoVertices(self, encoder, dest, base) ==
    << [call |-> "texture.create_view", texture |-> dest, desc |-> "default"],
       [call |-> "encoder.begin_render_pass", encoder |-> encoder,
        desc |-> [label |-> None,
                  color_attachments |-> <<
                      [view |-> base + 1,
                       resolve_target |-> None,
                       ops |-> [load |-> [op |-> "Clear", color |-> GREEN],
                                store |-> TRUE]] >>,
                  depth_stencil_attachment |-> None]],
       [call |-> "render_pass.set_pipeline", pass |-> base + 2,
        pipeline |-> self.render_pipeline],
       [call |-> "render_pass.set_bind_group", pass |-> base + 2, index |-> 0,
        bind_group |-> self.render_bind_group, offsets |-> <<>>],
       [call |-> "render_pass.draw", pass |-> base + 2,
        vertices |-> [start |-> 0, end |-> 2],
        instances |-> [start |-> 0, end |-> 1]],
       [call |-> "render_pass.drop", pass |-> base + 2] >>

BlitCalls_DrawFirst(self, encoder, dest, base) ==
    << [call |-> "texture.create_view", texture |-> dest, desc |-> "default"],
       [call |-> "encoder.begin_render_pass", encoder |-> encoder,
        desc |-> [label |-> None,
                  color_attachments |-> <<
                      [view |-> base + 1,
                       resolve_target |-> None,
                       ops |-> [load |-> [op |-> "Clear", color |-> GREEN],
                                store |-> TRUE]] >>,
                  depth_stencil_attachment |-> None]],
       [call |-> "render_pass.set_pipeline", pass |-> base + 2,
        pipeline |-> self.render_pipeline],
       [call |-> "render_pass.draw", pass |-> base + 2,
        vertices |-> [start |-> 0, end |-> 3],
        instances |-> [start |-> 0, end |-> 1]],
       [call |-> "render_pass.set_bind_group", pass |-> base + 2, index |-> 0,
        bind_group |-> self.render_bind_group, offsets |-> <<>>],
       [call |-> "render_pass.drop", pass |-> base + 2] >>

(***************************************************************************)
(* The wgpu calls of Blitter::blit(&self, encoder, dest).  The render pass *)
(* is a local of blit, so it is dropped (which ends the pass) on return.   *)
(***************************************************************************)
BlitCalls(self, encoder, dest, base) ==
    << [call |-> "texture.create_view", texture |-> dest, desc |-> "default"],
       [call |-> "encoder.begin_render_pass", encoder |-> encoder,
        desc |-> [label |-> None,
                  color_attachments |-> <<
                      [view |-> base + 1,
                       resolve_target |-> None,
                       ops |-> [load |-> [op |-> "Clear", color |-> GREEN],
                                store |-> TRUE]] >>,
                  depth_stencil_attachment |-> None]],
       [call |-> "render_pass.set_pipeline", pass |-> base + 2,
        pipeline |-> self.render_pipeline],
       [call |-> "render_pass.set_bind_group", pass |-> base + 2, index |-> 0,
        bind_group |-> self.render_bind_group, offsets |-> <<>>],
       [call |-> "render_pass.draw", pass |-> base + 2,
        vertices |-> [start |-> 0, end |-> 3],
        instances |-> [start |-> 0, end |-> 1]],
       [call |-> "render_pass.drop", pass |-> base + 2] >>

(***************************************************************************)
(* The wgpu calls of Blitter::create_texture(&self, wgpu, width, height);  *)
(* it returns the texture, which is object base + 1.                       *)
(***************************************************************************)
\* Fault: width and height exchanged.
TextureDescriptor_Transposed(self, width, height) ==
    [size |-> [width |-> height, height |-> width, depth_or_array_layers |-> 1],
     mip_level_count |-> 1,
     sample_count |-> 1,
     dimension |-> "D2",
     format |-> self.dest_format,
     usage |-> {"TEXTURE_BINDING", "RENDER_ATTACHMENT"},
     label |-> None]

TextureDescriptor(self, width, height) ==
    [size |-> [width |-> width, height |-> height, depth_or_array_layers |-> 1],
     mip_level_count |-> 1,
     sample_count |-> 1,
     dimension |-> "D2",
     format |-> self.dest_format,
     usage |-> {"TEXTURE_BINDING", "RENDER_ATTACHMENT"},
     label |-> None]

\* Fault: the finished command buffer is never submitted.
CreateTextureCalls_Unsubmitted(self, width, height, base) ==
    << [call |-> "device.create_texture", desc |-> TextureDescriptor(self, width, height)],
       [call |-> "device.create_command_encoder", desc |-> "default"] >>
    \o BlitCalls(self, base + 2, base + 1, base + 2)
    \o << [call |-> "encoder.finish", encoder |-> base + 2] >>

CreateTextureCalls(self, width, height, base) ==
    << [call |-> "device.create_texture", desc |-> TextureDescriptor(self, width, height)],
       [call |-> "device.create_command_encoder", desc |-> "default"] >>
    \o BlitCalls(self, base + 2, base + 1, base + 2)
    \o << [call |-> "encoder.finish", encoder |-> base + 2],
          [call |-> "queue.submit", buffers |-> <<base + 9>>] >>

(***************************************************************************)
(* Objects the guards and the device look up in the log.                   *)
(***************************************************************************)
Dests == {t \in Textures : "RENDER_ATTACHMENT" \in gpu[t].desc.usage}
Encoders == Made("device.create_command_encoder")
Finished == {gpu[i].encoder : i \in Made("encoder.finish")}
OpenEncoders == Encoders \ Finished
PassesOf(encoder) ==
    {i \in Made("encoder.begin_render_pass") : gpu[i].encoder = encoder}
Submits == Made("queue.submit")

\* Encoders the caller made: those not made inside a create_texture call.
InCall(i) == \E k \in DOMAIN calls : calls[k].first <= i /\ i <= calls[k].last
CallerEncoders == {e \in Encoders : ~InCall(e)}

ZeroContent(width, height) ==
    [c \in (0 .. width - 1) \X (0 .. height - 1) |-> ZeroPixel]

\* pixels extended by a new, zero-initialised texture t.
WithTexture(t, width, height) ==
    [u \in DOMAIN pixels \cup {t} |->
        IF u = t THEN ZeroContent(width, height) ELSE pixels[u]]

\* Fault: blit takes the Blitter mutably and adopts the destination's format.
Blit_Adopting ==
    /\ ~panicked
    /\ Len(calls) < MaxCalls
    /\ \E b \in DOMAIN blitters, encoder \in OpenEncoders, dest \in Dests :
         LET base == Len(gpu)
             made == BlitCalls(blitters[b], encoder, dest, base)
         IN /\ gpu' = gpu \o made
            /\ calls' = Append(calls,
                   [op |-> "blit", blitter |-> b, encoder |-> encoder, dest |-> dest,
                    first |-> base + 1, last |-> base + Len(made)])
            /\ blitters' = [blitters EXCEPT ![b].dest_format = gpu[dest].desc.format]
            /\ UNCHANGED <<panicked, executed, pixels>>

(***************************************************************************)
(* Blitter::blit(&self, encoder, dest), called by the embedding            *)
(* application on one of its own open encoders.                            *)
(***************************************************************************)
Blit ==
    /\ ~panicked
    /\ Len(calls) < MaxCalls
    /\ \E b \in DOMAIN blitters, encoder \in OpenEncoders, dest \in Dests :
         LET base == Len(gpu)
             made == BlitCalls(blitters[b], encoder, dest, base)
         IN /\ gpu' = gpu \o made
            /\ calls' = Append(calls,
                   [op |-> "blit", blitter |-> b, encoder |-> encoder, dest |-> dest,
                    first |-> base + 1, last |-> base + Len(made)])
            /\ UNCHANGED <<blitters, panicked, executed, pixels>>

(***************************************************************************)
(* Blitter::create_texture(&self, wgpu, width, height)                     *)
(***************************************************************************)
CreateTexture ==
    /\ ~panicked
    /\ Len(calls) < MaxCalls
    /\ \E b \in DOMAIN blitters, width \in 1 .. MaxDim, height \in 1 .. MaxDim :
         LET base == Len(gpu)
             made == CreateTextureCalls(blitters[b], width, height, base)
         IN /\ gpu' = gpu \o made
            /\ calls' = Append(calls,
                   [op |-> "create_texture", blitter |-> b,
                    width |-> width, height |-> height,
                    first |-> base + 1, last |-> base + Len(made),
                    result |-> base + 1])
            /\ pixels' = WithTexture(base + 1, width, height)
            /\ UNCHANGED <<blitters, panicked, executed>>

(***************************************************************************)
(* The embedding application: it makes command encoders of its own, one at *)
(* a time, and finishes and submits them once they hold a blit.            *)
(***************************************************************************)
CallerCreateEncoder ==
    /\ ~panicked
    /\ Len(calls) < MaxCalls
    /\ blitters # <<>>
    /\ \A e \in CallerEncoders : e \in Finished /\ PassesOf(e) # {}
    /\ gpu' = Append(gpu, [call |-> "device.create_command_encoder", desc |-> "default"])
    /\ UNCHANGED <<blitters, calls, panicked, executed, pixels>>

CallerSubmit ==
    /\ ~panicked
    /\ \E encoder \in OpenEncoders :
         /\ PassesOf(encoder) # {}
         /\ gpu' = gpu \o << [call |-> "encoder.finish", encoder |-> encoder],
                          [call |-> "queue.submit", buffers |-> <<Len(gpu) + 1>>] >>
    /\ UNCHANGED <<blitters, calls, panicked, executed, pixels>>

(***************************************************************************)
(* The shader blit.wgsl.  vs_main makes the clip-space position and the    *)
(* texture coordinate of a vertex from its index alone: the three vertices *)
(* (-1,1), (-1,-3), (3,1) of a triangle that contains the whole viewport.  *)
(***************************************************************************)
vs_main(vertex_index) ==
    LET x == vertex_index \div 2
        y == vertex_index % 2
    IN [position |-> [x |-> 4 * x - 1, y |-> 1 - 4 * y],
        tex_coords |-> [x |-> 2 * x, y |-> 2 * y]]

(***************************************************************************)
(* Rasterisation of one triangle on a width x height attachment (the       *)
(* viewport of a render pass is the whole attachment).  Pixel (i, j) has   *)
(* its centre at x = (2i+1)/width - 1, y = 1 - (2j+1)/height; everything   *)
(* is scaled by width * height to stay in the integers.                    *)
(***************************************************************************)
Edge(a, b, p) == (b.x - a.x) * (p.y - a.y) - (b.y - a.y) * (p.x - a.x)

Centre(c, width, height) ==
    [x |-> (2 * c[1] + 1) * height - width * height,
     y |-> width * height - (2 * c[2] + 1) * width]

Covers(first_vertex, c, width, height) ==
    LET s == width * height
        v(k) == LET q == vs_main(first_vertex + k).position
                IN [x |-> q.x * s, y |-> q.y * s]
        p == Centre(c, width, height)
        e1 == Edge(v(0), v(1), p)
        e2 == Edge(v(1), v(2), p)
        e3 == Edge(v(2), v(0), p)
    IN /\ Edge(v(0), v(1), v(2)) # 0
       /\ \/ e1 >= 0 /\ e2 >= 0 /\ e3 >= 0
          \/ e1 <= 0 /\ e2 <= 0 /\ e3 <= 0

\* Pixels a draw of a triangle list covers: one triangle per 3 vertices.
Covered(vertices, instances, width, height) ==
    {c \in (0 .. width - 1) \X (0 .. height - 1) :
        /\ instances.end > instances.start
        /\ \E k \in 0 .. ((vertices.end - vertices.start) \div 3) - 1 :
              Covers(vertices.start + 3 * k, c, width, height)}

\* The texel a non-filtering sampler reads at the centre of pixel c, where
\* the interpolated tex_coords are ((2i+1)/(2 width), (2j+1)/(2 height)).
Sample(src, c, width, height) ==
    << src,
       ((2 * c[1] + 1) * gpu[src].desc.size.width) \div (2 * width),
       ((2 * c[2] + 1) * gpu[src].desc.size.height) \div (2 * height) >>

(***************************************************************************)
(* Execution of a submitted command buffer by the device.                  *)
(***************************************************************************)
PassDest(pass) == gpu[gpu[pass].desc.color_attachments[1].view].texture

CommandsOf(pass) ==
    {i \in DOMAIN gpu :
        /\ gpu[i].call \in {"render_pass.set_pipeline", "render_pass.set_bind_group",
                            "render_pass.draw"}
        /\ gpu[i].pass = pass}

PipelinesOf(pass) ==
    {gpu[i].pipeline : i \in {j \in CommandsOf(pass) : gpu[j].call = "render_pass.set_pipeline"}}

\* A pass is valid when its attachment can be rendered to and every
\* pipeline set in it renders to the attachment's format.
ValidPass(pass) ==
    /\ "RENDER_ATTACHMENT" \in gpu[PassDest(pass)].desc.usage
    /\ \A pl \in PipelinesOf(pass) :
          gpu[pl].desc.fragment[1].targets[1].format = gpu[PassDest(pass)].desc.format

Min(S) == CHOOSE m \in S : \A n \in S : m <= n

\* The effect of the commands todo of a pass on the attachment content px;
\* st is the pipeline and bind group set so far.
RECURSIVE RunCommands(_, _, _, _)
RunCommands(todo, st, px, dest) ==
    IF todo = {} THEN px
    ELSE LET i == Min(todo)
             cmd == gpu[i]
             width == gpu[dest].desc.size.width
             height == gpu[dest].desc.size.height
         IN CASE cmd.call = "render_pass.set_pipeline" ->
                    RunCommands(todo \ {i}, [st EXCEPT !.pipeline = Some(cmd.pipeline)], px, dest)
              [] cmd.call = "render_pass.set_bind_group" ->
                    RunCommands(todo \ {i}, [st EXCEPT !.bind_group = Some(cmd.bind_group)], px, dest)
              [] OTHER ->
                    IF st.pipeline = None \/ st.bind_group = None
                    THEN RunCommands(todo \ {i}, st, px, dest)
                    ELSE LET entry == gpu[st.pipeline[1]].desc.fragment[1].entry_point
                             view == gpu[st.bind_group[1]].desc.entries[1].resource
                             src == gpu[view].texture
                             hit == Covered(cmd.vertices, cmd.instances, width, height)
                             out == [c \in DOMAIN px |->
                                       IF c \in hit
                                       THEN DrawPixel(entry, Sample(src, c, width, height))
                                       ELSE px[c]]
                         IN RunCommands(todo \ {i}, st, out, dest)

RunPass(pass, content) ==
    LET dest == PassDest(pass)
        ops == gpu[pass].desc.color_attachments[1].ops
        loaded == IF ops.load.op = "Clear"
                  THEN [c \in DOMAIN content[dest] |-> ClearPixel(ops.load.color)]
                  ELSE content[dest]
        drawn == RunCommands(CommandsOf(pass), [pipeline |-> None, bind_group |-> None],
                             loaded, dest)
    IN IF ops.store THEN [content EXCEPT ![dest] = drawn] ELSE content

RECURSIVE RunPasses(_, _)
RunPasses(todo, content) ==
    IF todo = {} THEN content
    ELSE RunPasses(todo \ {Min(todo)}, RunPass(Min(todo), content))

\* The k-th queue.submit of the log.
Submission(k) ==
    CHOOSE i \in Submits : Cardinality({j \in Submits : j <= i}) = k

\* An invalid command buffer is rejected: the submission changes nothing.
GpuExecute ==
    /\ executed < Cardinality(Submits)
    /\ LET buffer == gpu[Submission(executed + 1)].buffers[1]
           passes == PassesOf(gpu[buffer].encoder)
       IN pixels' = IF \A pass \in passes : ValidPass(pass)
                    THEN RunPasses(passes, pixels)
                    ELSE pixels
    /\ executed' = executed + 1
    /\ UNCHANGED <<gpu, blitters, calls, panicked>>

Next ==
    \/ New
    \/ Blit
    \/ CreateTexture
    \/ CallerCreateEncoder
    \/ CallerSubmit
    \/ GpuExecute

(***************************************************************************)
(* Properties.                                                             *)
(***************************************************************************)
CallsOf(op) == {k \in DOMAIN calls : calls[k].op = op}

\* The wgpu calls made during call k of the Blitter API, and their names.
Range(k) == calls[k].first .. calls[k].last
Names(k) == [i \in 1 .. (calls[k].last - calls[k].first + 1) |->
                gpu[calls[k].first + i - 1].call]

\* The three supported conversions, as the documentation tables them.
SupportedPairs ==
    { <<"Linear", "Bgra8Unorm">>, <<"Linear", "Bgra8UnormSrgb">>, <<"Rgbe", "Rgba16Float">> }

ExpectedEntry(pair) ==
    IF pair = <<"Linear", "Bgra8Unorm">> THEN "fs_main_linear_to_srgb"
    ELSE IF pair = <<"Linear", "Bgra8UnormSrgb">> THEN "fs_main"
    ELSE "fs_main_rgbe_to_linear"

PairOf(k) == <<calls[k].src_space, calls[k].dest_format>>

\* C1: for each of the three supported (colour space, format) pairs
\* Blitter::new returns a Blitter whose pipeline has the fragment entry point
\* the table gives for the pair, and the vertex entry point is "vs_main".
C1_EntryPoint ==
    \A k \in CallsOf("new") :
        PairOf(k) \in SupportedPairs =>
            /\ calls[k].result # None
            /\ LET p == gpu[blitters[calls[k].result[1]].render_pipeline]
               IN /\ p.call = "device.create_render_pipeline"
                  /\ p.desc.fragment # None
                  /\ p.desc.fragment[1].entry_point = ExpectedEntry(PairOf(k))
                  /\ p.desc.vertex.entry_point = "vs_main"

\* All three supported pairs have been constructed, each with its own entry point.
C1_Witness ==
    /\ Len(blitters) = 3
    /\ {PairOf(k) : k \in CallsOf("new")} = SupportedPairs
    /\ Cardinality({gpu[blitters[b].render_pipeline].desc.fragment[1].entry_point :
                        b \in DOMAIN blitters}) = 3

\* C2: Blitter::new panics for every pair outside the three supported ones
\* and returns no Blitter; nothing else panics: a panic is always in the last
\* call, which is a new for an unsupported pair, and every Blitter comes from
\* a new for a supported pair.
C2_UnsupportedPanics ==
    /\ \A k \in CallsOf("new") :
          PairOf(k) \notin SupportedPairs =>
              calls[k].result = None /\ panicked /\ k = Len(calls)
    /\ panicked =>
          /\ calls # <<>>
          /\ calls[Len(calls)].op = "new"
          /\ PairOf(Len(calls)) \notin SupportedPairs
    /\ Len(blitters) = Cardinality({k \in CallsOf("new") : PairOf(k) \in SupportedPairs})
    /\ \A k \in CallsOf("blit") \cup CallsOf("create_texture") :
          k < Len(calls) \/ ~panicked

\* A new for an unsupported pair panicked after Blitters had been made and used.
C2_Witness ==
    /\ panicked
    /\ blitters # <<>>
    /\ CallsOf("create_texture") # {}
    /\ PairOf(Len(calls)) \notin SupportedPairs

\* C10: a new for an unsupported pair has created, when it panics, the shader
\* module, the bind group layout, the source view, the sampler, the bind
\* group and the pipeline layout, in this order, and no render pipeline;
\* every render pipeline of the device was made by a new for a supported pair.
C10_PanicAfterSetup ==
    /\ \A k \in CallsOf("new") :
          PairOf(k) \notin SupportedPairs =>
              /\ Names(k) = << "device.create_shader_module",
                               "device.create_bind_group_layout",
                               "texture.create_view",
                               "device.create_sampler",
                               "device.create_bind_group",
                               "device.create_pipeline_layout" >>
              /\ gpu[calls[k].first + 2].texture = calls[k].src
    /\ \A p \in Made("device.create_render_pipeline") :
          \E k \in CallsOf("new") :
              /\ p \in Range(k)
              /\ PairOf(k) \in SupportedPairs

\* The first call ever made is a new for an unsupported pair: six objects
\* exist on the device besides the caller's textures, none a pipeline.
C10_Witness ==
    /\ panicked
    /\ Len(calls) = 1
    /\ Len(gpu) = 8
    /\ Made("device.create_render_pipeline") = {}
    /\ Made("device.create_pipeline_layout") # {}

\* C3: create_texture(ctx, W, H) creates exactly one texture, which it
\* returns: 2D, W x H x 1, 1 mip level, 1 sample, the Blitter's destination
\* format, usage TEXTURE_BINDING | RENDER_ATTACHMENT; the one render pass the
\* call records renders to a view of that texture.
C3_CreateTexture ==
    \A k \in CallsOf("create_texture") :
        LET t == calls[k].result
        IN /\ Textures \cap Range(k) = {t}
           /\ gpu[t].desc.size = [width |-> calls[k].width, height |-> calls[k].height,
                                  depth_or_array_layers |-> 1]
           /\ gpu[t].desc.mip_level_count = 1
           /\ gpu[t].desc.sample_count = 1
           /\ gpu[t].desc.dimension = "D2"
           /\ gpu[t].desc.format = blitters[calls[k].blitter].dest_format
           /\ gpu[t].desc.usage = {"TEXTURE_BINDING", "RENDER_ATTACHMENT"}
           /\ \E p \in Range(k) :
                 /\ Made("encoder.begin_render_pass") \cap Range(k) = {p}
                 /\ PassDest(p) = t

\* Two textures were created, one wider than high and one higher than wide.
C3_Witness ==
    \E k1, k2 \in CallsOf("create_texture") :
        /\ calls[k1].width < calls[k1].height
        /\ calls[k2].width > calls[k2].height
        /\ calls[k1].result # calls[k2].result

\* The render pass blit always records, given the view and the Blitter.
ExpectedPass(view) ==
    [label |-> None,
     color_attachments |-> << [view |-> view, resolve_target |-> None,
                               ops |-> [load |-> [op |-> "Clear", color |-> GREEN],
                                        store |-> TRUE]] >>,
     depth_stencil_attachment |-> None]

\* Pass p, with the calls around it in the log, is what one blit of the
\* Blitter self into dest records.
RecordedBlit(p, self, dest) ==
    /\ gpu[p - 1] = [call |-> "texture.create_view", texture |-> dest, desc |-> "default"]
    /\ gpu[p].desc = ExpectedPass(p - 1)
    /\ gpu[p + 1] = [call |-> "render_pass.set_pipeline", pass |-> p,
                     pipeline |-> self.render_pipeline]
    /\ gpu[p + 2] = [call |-> "render_pass.set_bind_group", pass |-> p, index |-> 0,
                     bind_group |-> self.render_bind_group, offsets |-> <<>>]
    /\ gpu[p + 3] = [call |-> "render_pass.draw", pass |-> p,
                     vertices |-> [start |-> 0, end |-> 3],
                     instances |-> [start |-> 0, end |-> 1]]
    /\ gpu[p + 4] = [call |-> "render_pass.drop", pass |-> p]
    /\ CommandsOf(p) = {p + 1, p + 2, p + 3}

\* C8: every blit records exactly one render pass, on a default view of the
\* destination, with one colour attachment cleared to green and stored, no
\* resolve target, no depth/stencil; in the pass it sets the Blitter's
\* pipeline, then its bind group at index 0 without offsets, then draws
\* vertices 0..3, instances 0..1, once.  The clear (the load operation of
\* the pass) is recorded before the draw.
C8_RenderPass ==
    /\ \A k \in CallsOf("blit") :
          /\ Names(k) = << "texture.create_view", "encoder.begin_render_pass",
                           "render_pass.set_pipeline", "render_pass.set_bind_group",
                           "render_pass.draw", "render_pass.drop" >>
          /\ RecordedBlit(calls[k].first + 1, blitters[calls[k].blitter], calls[k].dest)
          /\ gpu[calls[k].first + 1].encoder = calls[k].encoder
    /\ \A k \in CallsOf("create_texture") :
          /\ Made("encoder.begin_render_pass") \cap Range(k) = {calls[k].first + 3}
          /\ RecordedBlit(calls[k].first + 3, blitters[calls[k].blitter], calls[k].result)
    /\ \A p \in Made("encoder.begin_render_pass") :
          \A d \in Made("render_pass.draw") :
              gpu[d].pass = p => (p < d /\ gpu[p].desc.color_attachments[1].ops.load.op = "Clear")

\* Two blits were recorded into the same encoder of the caller.
C8_Witness ==
    \E k1, k2 \in CallsOf("blit") :
        /\ k1 # k2
        /\ calls[k1].encoder = calls[k2].encoder
        /\ Cardinality(PassesOf(calls[k1].encoder)) = 2

\* The format a pipeline renders to.
TargetFormats(pipeline) ==
    [i \in DOMAIN gpu[pipeline].desc.fragment[1].targets |->
        gpu[pipeline].desc.fragment[1].targets[i].format]

\* C9: the single colour target of a Blitter's pipeline has the Blitter's
\* dest_format, so a texture returned by create_texture has the format the
\* pipeline renders to; blit records its pass into whatever destination it
\* is given, of that format or not.
C9_TargetFormat ==
    /\ \A b \in DOMAIN blitters :
          TargetFormats(blitters[b].render_pipeline) = <<blitters[b].dest_format>>
    /\ \A k \in CallsOf("create_texture") :
          <<gpu[calls[k].result].desc.format>>
              = TargetFormats(blitters[calls[k].blitter].render_pipeline)
    /\ \A k \in CallsOf("blit") :
          /\ gpu[calls[k].first + 1].call = "encoder.begin_render_pass"
          /\ PassDest(calls[k].first + 1) = calls[k].dest

\* A Blitter made a texture of its own format, and a blit of the same
\* Blitter was recorded into a destination of another format.
C9_Witness ==
    \E k \in CallsOf("blit"), m \in CallsOf("create_texture") :
        /\ calls[k].blitter = calls[m].blitter
        /\ gpu[calls[k].dest].desc.format # blitters[calls[k].blitter].dest_format
        /\ gpu[calls[m].result].desc.format = blitters[calls[k].blitter].dest_format
        /\ PassesOf(calls[k].encoder) # {}

\* Queue submissions made inside a call of the Blitter API.
OwnSubmits == {i \in Submits : InCall(i)}

IsCall(op) == Len(calls') = Len(calls) + 1 /\ calls'[Len(calls')].op = op

\* C4: blit records into the caller's encoder and submits nothing;
\* create_texture makes the texture, makes an encoder, records the blit into
\* that encoder, finishes it and submits it once, in this order, and returns
\* with the submission still pending on the device.  The submissions the
\* Blitter made are as many as the create_texture calls.
C4_Submission ==
    /\ [](Cardinality(OwnSubmits) = Cardinality(CallsOf("create_texture")))
    /\ [][ /\ IsCall("blit") =>
                /\ Submits' = Submits
                /\ Finished' = Finished
                /\ executed' = executed
                /\ {i \in DOMAIN gpu' : /\ gpu'[i].call = "encoder.begin_render_pass"
                                         /\ gpu'[i].encoder = calls'[Len(calls')].encoder}
                      = PassesOf(calls'[Len(calls')].encoder) \cup {Len(gpu) + 2}
           /\ IsCall("create_texture") =>
                /\ [i \in 1 .. (Len(gpu') - Len(gpu)) |-> gpu'[Len(gpu) + i].call] =
                      << "device.create_texture", "device.create_command_encoder",
                         "texture.create_view", "encoder.begin_render_pass",
                         "render_pass.set_pipeline", "render_pass.set_bind_group",
                         "render_pass.draw", "render_pass.drop",
                         "encoder.finish", "queue.submit" >>
                /\ gpu'[Len(gpu) + 4].encoder = Len(gpu) + 2
                /\ gpu'[Len(gpu) + 9].encoder = Len(gpu) + 2
                /\ gpu'[Len(gpu) + 10].buffers = <<Len(gpu) + 9>>
                /\ Submits' = Submits \cup {Len(gpu) + 10}
                /\ executed' = executed
                /\ executed' < Cardinality(Submits') ]_vars

\* A blit sits unsubmitted in the caller's encoder while a create_texture
\* call made after it has been submitted and executed.
C4_Witness ==
    \E k \in CallsOf("blit"), m \in CallsOf("create_texture") :
        /\ k < m
        /\ calls[k].encoder \in OpenEncoders
        /\ executed = Cardinality(Submits)
        /\ executed >= 1

\* C5: a Blitter never changes: every step leaves the struct of each
\* existing Blitter, its pipeline, its bind group and the view and sampler
\* the bind group binds as they were.
C5_Immutable ==
    [][ \A b \in DOMAIN blitters :
          /\ b \in DOMAIN blitters'
          /\ blitters'[b] = blitters[b]
          /\ gpu'[blitters[b].render_pipeline] = gpu[blitters[b].render_pipeline]
          /\ gpu'[blitters[b].render_bind_group] = gpu[blitters[b].render_bind_group]
          /\ \A e \in 1 .. 2 :
               LET r == gpu[blitters[b].render_bind_group].desc.entries[e].resource
               IN gpu'[r] = gpu[r] ]_vars

\* A Blitter has been used by a blit and by a create_texture call.
C5_Witness ==
    \E b \in DOMAIN blitters :
        /\ \E k \in CallsOf("blit") : calls[k].blitter = b
        /\ \E k \in CallsOf("create_texture") : calls[k].blitter = b
        /\ gpu[blitters[b].render_pipeline].call = "device.create_render_pipeline"

\* The encoders whose command buffer the device has executed: those of the
\* first `executed` submissions whose passes are all valid.
ExecutedEncoders ==
    {gpu[gpu[i].buffers[1]].encoder :
        i \in {j \in Submits : Cardinality({h \in Submits : h <= j}) <= executed}}

ExecutedPasses ==
    {p \in Made("encoder.begin_render_pass") :
        /\ gpu[p].encoder \in ExecutedEncoders
        /\ \A q \in PassesOf(gpu[p].encoder) : ValidPass(q)}

\* The executed passes that rendered to dest, and the last of them.  An
\* encoder is finished after its passes were recorded and submitted at
\* once, so the index of its encoder.finish orders the submissions.
WritersOf(dest) == {p \in ExecutedPasses : PassDest(p) = dest}

FinishOf(encoder) == CHOOSE i \in Made("encoder.finish") : gpu[i].encoder = encoder

Before(p, q) ==
    \/ FinishOf(gpu[p].encoder) < FinishOf(gpu[q].encoder)
    \/ gpu[p].encoder = gpu[q].encoder /\ p <= q

Last(W) == CHOOSE p \in W : \A q \in W : Before(q, p)

\* The Blitter state a pass was recorded with, and what it recorded besides
\* the identities of the pass and of the destination view.
BlitterOf(p) == <<gpu[p + 1].pipeline, gpu[p + 2].bind_group>>

Recorded(p) ==
    << [gpu[p].desc.color_attachments[1] EXCEPT !.view = 0],
       gpu[p].desc.depth_stencil_attachment,
       [i \in 1 .. 4 |-> [gpu[p + i] EXCEPT !.pass = 0]] >>

SizeOf(t) == gpu[t].desc.size

\* C6: two blits of one Blitter into two different destinations record the
\* same commands, and once both have run, destinations of the same size hold
\* the same pixels: nothing of an earlier blit shows in a later one.
C6_SameResult ==
    /\ \A p, q \in Made("encoder.begin_render_pass") :
          BlitterOf(p) = BlitterOf(q) => Recorded(p) = Recorded(q)
    /\ LET done == ExecutedPasses
           W(d) == {p \in done : PassDest(p) = d}
       IN \A d1, d2 \in {PassDest(p) : p \in done} :
             (/\ d1 < d2
              /\ SizeOf(d1) = SizeOf(d2)
              /\ BlitterOf(Last(W(d1))) = BlitterOf(Last(W(d2))))
             => pixels[d1] = pixels[d2]

\* One Blitter was blitted into the surface by a blit call of the caller
\* and into a texture of the same size inside a create_texture call; both
\* blits ran and every pixel of both destinations shows the same texel.
C6_Witness ==
    \E k \in CallsOf("blit"), m \in CallsOf("create_texture") :
        /\ calls[k].blitter = calls[m].blitter
        /\ calls[k].dest # calls[m].result
        /\ SizeOf(calls[k].dest) = SizeOf(calls[m].result)
        /\ calls[k].first + 1 \in WritersOf(calls[k].dest)
        /\ calls[m].first + 3 \in WritersOf(calls[m].result)
        /\ pixels[calls[k].dest] = pixels[calls[m].result]
        /\ \A c \in DOMAIN pixels[calls[k].dest] : pixels[calls[k].dest][c].from = "draw"

\* C7: after a blit has run, its destination (the pass's viewport is the
\* whole destination) is fully covered: every pixel was written by the draw
\* and none keeps the green the clear of the pass put there.
C7_FullyCovered ==
    LET done == ExecutedPasses
        W(d) == {p \in done : PassDest(p) = d}
    IN \A d \in {PassDest(p) : p \in done} :
          LET entry == gpu[BlitterOf(Last(W(d)))[1]].desc.fragment[1].entry_point
          IN \A c \in DOMAIN pixels[d] :
                /\ pixels[d][c] # ClearPixel(GREEN)
                /\ pixels[d][c].from = "draw"
                /\ pixels[d][c].entry = entry

\* Blits into a wide and into a high texture have run, and each pixel of
\* both shows a texel of the source.
C7_Witness ==
    \E d1, d2 \in Dests :
        /\ SizeOf(d1).width > SizeOf(d1).height
        /\ SizeOf(d2).width < SizeOf(d2).height
        /\ WritersOf(d1) # {}
        /\ WritersOf(d2) # {}
        /\ \A d \in {d1, d2} : \A c \in DOMAIN pixels[d] : pixels[d][c].texel[1] = 1

Spec == Init /\ [][Next]_vars
====
